---- MODULE Spec2Model ----
(***************************************************************************)
(* SolaraProvider.call (apps/gateway/providers/solara.ts): one invocation  *)
(* of the retrying provider call, the timers it arms, the transport        *)
(* (node-fetch) that settles each request, and the caller; and the factory *)
(* createSolaraProvider with the callers that ask it for a provider.       *)
(*                                                                         *)
(* The file imports setTimeout from 'timers/promises' (line 13), which     *)
(* shadows the global callback timer.  Its signature is                    *)
(* setTimeout(delay, value, options): it returns a promise that is         *)
(* fulfilled with `value` after `delay` ms and never invokes `value`.      *)
(* Both timer uses of call() are modelled with that meaning.               *)
(***************************************************************************)
EXTENDS Integers, Sequences, FiniteSets, TLC

VARIABLES
  maxRetries,     \* this.maxRetries (constructor, line 30)
  timeoutMs,      \* this.timeoutMs (constructor, line 29)
  validatesDelay, \* whether the runtime's timers/promises rejects a non-number delay
  pc,             \* where call() is: "loop", "fetching", "backoff", "returned", "raised"
  attempt,        \* the loop variable of line 38
  lastError,      \* line 36 / 88
  aborted,        \* controller.signal.aborted of the current attempt (line 43)
  fetchState,     \* the promise of line 46: "none", "pending", "settled"
  response,       \* what the promise of line 46 settled with
  sleepPromise,   \* the promise awaited on line 100: "none", "pending", "resolved"
  timers,         \* every timer armed so far (lines 44 and 100), in arming order
  fetchCount,     \* number of transport calls issued (line 46)
  log,            \* console output, in order (lines 40, 77, 89, 99)
  result,         \* the value call() returned (line 85)
  failure,        \* the error call() raised (lines 93, 105)
  outcomes,       \* history: what each transport call settled with, in order
  overdue,        \* history: attempts still in flight when their line-44 timer expired
  cancelled,      \* the caller's own cancellation signal has fired
  unhandled,      \* promise rejections nobody handles
  config,         \* the SolaraConfig handed to call() (lines 15-23, 33-34)
  env,            \* process.env as createSolaraProvider reads it (lines 112-115)
  instances,      \* every SolaraProvider constructed by createSolaraProvider, in order
  held,           \* per caller, the instance createSolaraProvider returned to it (0: none)
  envReads,       \* number of reads of process.env.SOLARA_API_KEY (line 112)
  sent            \* history: the request bodies handed to the transport (lines 52-58)

vars == << maxRetries, timeoutMs, validatesDelay, pc, attempt, lastError, aborted,
           fetchState, response, sleepPromise, timers, fetchCount, log, result,
           failure, outcomes, overdue, cancelled, unhandled,
           config, env, instances, held, envReads, sent >>

\* what no step of call() changes: its argument, the environment, the factory's output
outside == << config, env, instances, held, envReads >>

----------------------------------------------------------------------------
(* Bounds of the exploration *)

MaxRetriesCfg == 3
ShortTimeoutMs == 500
MaxCallers == 2

(* Program constants *)

DefaultTimeoutMs == 20000
BackoffUnitMs == 1000
DefaultTemperatureTenths == 2
DefaultMaxTokens == 1024
NaN == -999999

----------------------------------------------------------------------------
(* JavaScript numbers: comparisons with NaN are false, arithmetic keeps NaN *)

JsLt(a, b) == a # NaN /\ b # NaN /\ a < b

JsSub(a, b) == IF a = NaN \/ b = NaN THEN NaN ELSE a - b

RECURSIVE Pow2(_)
Pow2(n) == IF n <= 0 THEN 1 ELSE 2 * Pow2(n - 1)

----------------------------------------------------------------------------
(* Values *)

Undefined == "undefined"

Contents == {Undefined, "", "answer"}

Statuses == {200, 400, 429, 503}

Resp(status, content) ==
  [kind |-> "response", status |-> status, content |-> content, name |-> "none"]

Rejected(name) ==
  [kind |-> "error", status |-> 0, content |-> Undefined, name |-> name]

NoResponse == [kind |-> "none", status |-> 0, content |-> Undefined, name |-> "none"]

NullError == [name |-> "null", message |-> "null", status |-> 0, detail |-> "none"]

NoFailure == [kind |-> "none", n |-> 0, cause |-> "none"]

\* The text of an error response is the server's: it may repeat what the request
\* carried, the prompt (the body, line 54) or the credential (the header, line 50).
EchoOfPrompt == "echo of the prompt"

EchoOfCredential == "echo of the credential"

ErrorBodies == {"error body", EchoOfPrompt, EchoOfCredential}

\* node-fetch: an aborted signal rejects the request with AbortError; otherwise
\* the server answers with some status and body, or the connection fails.
TransportOutcomes(isAborted) ==
  IF isAborted
    THEN {Rejected("AbortError")}
    ELSE {Resp(200, c) : c \in Contents}
           \cup {Resp(s, b) : s \in Statuses \ {200}, b \in ErrorBodies}
           \cup {Rejected("FetchError")}

\* response.ok
Ok(r) == r.kind = "response" /\ r.status >= 200 /\ r.status <= 299

\* a test for a missing field only, which lets the empty string through
TruthyMissingOnly(content) == content # Undefined

\* the truthiness test of line 72, `!content` negated
Truthy(content) == content # Undefined /\ content # ""

\* the error the try block throws for a settled request (lines 46, 64-74)
ThrownError(r) ==
  IF r.kind = "error"
    THEN [name |-> r.name, message |-> "transport", status |-> 0, detail |-> "none"]
    ELSE IF ~Ok(r)
      THEN [name |-> "Error", message |-> "SOLARA API error", status |-> r.status,
            detail |-> r.content]
      ELSE [name |-> "Error", message |-> "SOLARA returned empty response",
            status |-> r.status, detail |-> "none"]

\* the guard off by one: a sleep after the last attempt too
ShouldSleepOffByOne(a, retries) == JsLt(a, retries)

\* the guard dropped: no failure is ever followed by a sleep
ShouldSleepNever(a, retries) == FALSE

\* the loop written as "until attempt >= maxRetries", which NaN never satisfies
LoopGuardUntil(a, retries) == ~(a # NaN /\ retries # NaN /\ a >= retries)

\* the loop guard off by one: attempt <= maxRetries
LoopGuardInclusive(a, retries) == a # NaN /\ retries # NaN /\ a <= retries

\* the loop guard of line 38
LoopGuard(a, retries) == JsLt(a, retries)

\* the guard left out: every failure is followed by a sleep
ShouldSleepAlways(a, retries) == TRUE

\* the retry guard of line 96
ShouldSleep(a, retries) == JsLt(a, JsSub(retries, 1))

\* line 98
Delay(a) == Pow2(a) * BackoffUnitMs

----------------------------------------------------------------------------
(* The request.  An optional field is a sequence: << >> when the caller left it *)
(* out, << v >> when given.  Temperatures are in tenths.                        *)

Prompt == "PROMPT TEXT"

ApiKey == "API KEY"

Configs ==
  { [prompt |-> Prompt, temperature |-> << >>, maxTokens |-> << >>],
    [prompt |-> "", temperature |-> << >>, maxTokens |-> << >>],
    [prompt |-> Prompt, temperature |-> << 25 >>, maxTokens |-> << >>],
    [prompt |-> Prompt, temperature |-> << >>, maxTokens |-> << 0 >>] }

\* a default of a destructuring pattern (line 34)
Default(field, d) == IF field = << >> THEN d ELSE field[1]

\* lines 34, 52-58: the body of the request
RequestBody(c) ==
  [content |-> c.prompt,
   temperature |-> Default(c.temperature, DefaultTemperatureTenths),
   max_tokens |-> Default(c.maxTokens, DefaultMaxTokens)]

----------------------------------------------------------------------------
(* The factory.  An environment variable is a sequence of characters, << >> when *)
(* unset or empty (both are falsy for the || of lines 113-115).                  *)

Callers == 1 .. MaxCallers

DigitVal ==
  [c \in {"0", "1", "2", "3", "4", "5", "6", "7", "8", "9"} |->
     CASE c = "0" -> 0 [] c = "1" -> 1 [] c = "2" -> 2 [] c = "3" -> 3 [] c = "4" -> 4
       [] c = "5" -> 5 [] c = "6" -> 6 [] c = "7" -> 7 [] c = "8" -> 8 [] c = "9" -> 9]

RECURSIVE SkipSpaces(_)
SkipSpaces(str) ==
  IF str # << >> /\ str[1] = " " THEN SkipSpaces(Tail(str)) ELSE str

RECURSIVE LeadingDigits(_, _)
LeadingDigits(str, acc) ==
  IF str = << >> \/ str[1] \notin DOMAIN DigitVal
    THEN acc
    ELSE LeadingDigits(Tail(str), acc * 10 + DigitVal[str[1]])

\* parseInt: leading blanks, an optional sign, then the longest run of digits;
\* NaN when no digit follows
ParseInt(str) ==
  LET t == SkipSpaces(str)
      signed == t # << >> /\ t[1] \in {"-", "+"}
      digits == IF signed THEN Tail(t) ELSE t
  IN IF digits = << >> \/ digits[1] \notin DOMAIN DigitVal
       THEN NaN
       ELSE IF signed /\ t[1] = "-"
         THEN 0 - LeadingDigits(digits, 0)
         ELSE LeadingDigits(digits, 0)

\* value || fallback
OrElse(value, fallback) == IF value = << >> THEN fallback ELSE value

EnvRetries ==
  { << >>, << "a", "b", "c" >>, << "0" >>, << "1" >>, << "2" >>, << "-", "1" >>,
    << "2", "x" >> }

EnvTimeouts == { << >>, << "5", "0", "0" >> }

NoEnv == [retries |-> << >>, timeout |-> << >>]

\* lines 110-117: what `new SolaraProvider(...)` is given
NewProvider(e) ==
  [apiKey |-> ApiKey,
   timeoutMs |-> ParseInt(OrElse(e.timeout, << "2", "0", "0", "0", "0" >>)),
   maxRetries |-> ParseInt(OrElse(e.retries, << "3" >>))]

----------------------------------------------------------------------------
(* Timers.  timers/promises setTimeout(delay, value): `delay` is coerced as the  *)
(* runtime's Timeout does (not a number in 1..2^31-1 becomes 1)  ; runtimes    *)
(* that validate the delay reject the promise instead when it is not a number.   *)

CoerceDelay(after, isNumber) ==
  IF isNumber /\ after # NaN /\ after >= 1 /\ after <= 2147483647 THEN after ELSE 1

Timer(kind, a, after, isNumber) ==
  [kind |-> kind, attempt |-> a, duration |-> CoerceDelay(after, isNumber),
   remaining |-> CoerceDelay(after, isNumber), state |-> "pending"]

\* line 44: setTimeout(this.timeoutMs, () => controller.abort()):
\* the delay is this.timeoutMs, the arrow function is the fulfilment value.
TimeoutTimer(a) == Timer("timeout", a, timeoutMs, TRUE)

\* line 100: new Promise(resolve => setTimeout(resolve, delay)):
\* the delay argument is the function `resolve`, the number `delay` is the value.
\* Armed only when the runtime does not validate the delay.
SleepTimers(a) ==
  IF validatesDelay THEN << >> ELSE << Timer("sleep", a, NaN, FALSE) >>

\* Does the expiry of the line-44 timer call controller.abort()?  The arrow
\* function is the promise's value; nothing calls it.
TimeoutFiresAbort == FALSE

\* Does the expiry of the line-100 timer call `resolve` of the awaited promise?
\* `resolve` was passed as the delay; nothing calls it.
SleepFiresResolve == FALSE

Pending == {i \in DOMAIN timers : timers[i].state = "pending"}

Due == {i \in Pending : timers[i].remaining = 0}

MinRemaining ==
  CHOOSE d \in {timers[i].remaining : i \in Pending} :
    \A i \in Pending : d <= timers[i].remaining

----------------------------------------------------------------------------
(* Console output *)

\* A record: what was printed, the attempt number it prints (0: none), the delay it
\* prints (0: none), and the text it interpolates.

\* line 40: the attempt number and maxRetries
LogStart(a) ==
  [kind |-> "start", attempt |-> a + 1, delay |-> 0, text |-> "attempt", detail |-> "none"]

\* lines 77-83: the model name and the usage counters; no attempt number
LogSuccess(a) ==
  [kind |-> "success", attempt |-> 0, delay |-> 0, text |-> "usage", detail |-> "none"]

\* the failure record printing the zero-based index instead of attempt + 1
LogFailedZeroBased(a, err) ==
  [kind |-> "failed", attempt |-> a, delay |-> 0, text |-> err.message,
   detail |-> err.detail]

\* line 89: the attempt number and error.message, which for an error response
\* carries the response text (line 66)
LogFailed(a, err) ==
  [kind |-> "failed", attempt |-> a + 1, delay |-> 0, text |-> err.message,
   detail |-> err.detail]

\* line 99: the computed delay
LogRetry(a) ==
  [kind |-> "retry", attempt |-> 0, delay |-> Delay(a), text |-> "delay", detail |-> "none"]

----------------------------------------------------------------------------
RetryChoices == {NaN} \cup (-1 .. MaxRetriesCfg)

TimeoutChoices == {ShortTimeoutMs, DefaultTimeoutMs}

\* call() has just been invoked on a constructed provider (lines 26-36)
Init ==
  /\ maxRetries \in RetryChoices
  /\ timeoutMs \in TimeoutChoices
  /\ validatesDelay \in BOOLEAN
  /\ pc = "loop"
  /\ attempt = 0
  /\ lastError = NullError
  /\ aborted = FALSE
  /\ fetchState = "none"
  /\ response = NoResponse
  /\ sleepPromise = "none"
  /\ timers = << >>
  /\ fetchCount = 0
  /\ log = << >>
  /\ result = Undefined
  /\ failure = NoFailure
  /\ outcomes = << >>
  /\ overdue = {}
  /\ cancelled = FALSE
  /\ unhandled = 0
  /\ config \in Configs
  /\ env = NoEnv
  /\ instances = << >>
  /\ held = [c \in Callers |-> 0]
  /\ envReads = 0
  /\ sent = << >>

\* lines 38-60: the loop guard holds; log, arm the timeout timer, issue the request
StartAttempt ==
  /\ pc = "loop"
  /\ LoopGuard(attempt, maxRetries)
  /\ log' = Append(log, LogStart(attempt))
  /\ aborted' = FALSE
  /\ timers' = Append(timers, TimeoutTimer(attempt))
  /\ fetchCount' = fetchCount + 1
  /\ fetchState' = "pending"
  /\ response' = NoResponse
  /\ pc' = "fetching"
  /\ sent' = Append(sent, RequestBody(config))
  /\ UNCHANGED << maxRetries, timeoutMs, validatesDelay, attempt, lastError,
                  sleepPromise, result, failure, outcomes, overdue, cancelled,
                  unhandled >>
  /\ UNCHANGED outside

\* lines 38, 105: the loop guard fails
FinalThrow ==
  /\ pc = "loop"
  /\ ~LoopGuard(attempt, maxRetries)
  /\ pc' = "raised"
  /\ failure' = [kind |-> "exhausted", n |-> maxRetries, cause |-> lastError.message]
  /\ UNCHANGED << maxRetries, timeoutMs, validatesDelay, attempt, lastError, aborted,
                  fetchState, response, sleepPromise, timers, fetchCount, log,
                  result, outcomes, overdue, cancelled, unhandled >>
  /\ UNCHANGED sent
  /\ UNCHANGED outside

\* the transport settles the request of line 46 (and delivers its body, lines 65, 69)
TransportSettle ==
  /\ pc = "fetching"
  /\ fetchState = "pending"
  /\ \E o \in TransportOutcomes(aborted) :
       /\ response' = o
       /\ outcomes' = Append(outcomes, o)
  /\ fetchState' = "settled"
  /\ UNCHANGED << maxRetries, timeoutMs, validatesDelay, pc, attempt, lastError,
                  aborted, sleepPromise, timers, fetchCount, log, result, failure,
                  overdue, cancelled, unhandled >>
  /\ UNCHANGED sent
  /\ UNCHANGED outside

\* lines 87-102: the catch block, then (without a sleep) the loop's attempt++
Catch(err) ==
  /\ lastError' = err
  /\ result' = result
  /\ IF err.name = "AbortError"
       THEN /\ pc' = "raised"
            /\ failure' = [kind |-> "timeout", n |-> timeoutMs, cause |-> err.message]
            /\ log' = Append(log, LogFailed(attempt, err))
            /\ UNCHANGED << attempt, sleepPromise, timers, unhandled >>
       ELSE IF ShouldSleep(attempt, maxRetries)
         THEN /\ pc' = "backoff"
              /\ sleepPromise' = "pending"
              /\ timers' = timers \o SleepTimers(attempt)
              /\ unhandled' = IF validatesDelay THEN unhandled + 1 ELSE unhandled
              /\ log' = log \o << LogFailed(attempt, err), LogRetry(attempt) >>
              /\ UNCHANGED << attempt, failure >>
         ELSE /\ pc' = "loop"
              /\ attempt' = attempt + 1
              /\ log' = Append(log, LogFailed(attempt, err))
              /\ UNCHANGED << sleepPromise, timers, failure, unhandled >>

\* lines 62-85 after the request settled; clearTimeout of line 62 is handed the
\* promise of line 44, which is no timer: nothing is cleared.
AfterFetch ==
  IF Ok(response) /\ Truthy(response.content)
    THEN /\ log' = Append(log, LogSuccess(attempt))
         /\ result' = response.content
         /\ pc' = "returned"
         /\ UNCHANGED << attempt, lastError, sleepPromise, timers, failure, unhandled >>
    ELSE Catch(ThrownError(response))

\* line 100 resumed: the catch block ends, then the loop's attempt++
AfterBackoff ==
  /\ pc' = "loop"
  /\ attempt' = attempt + 1
  /\ sleepPromise' = "none"
  /\ UNCHANGED << lastError, timers, log, result, failure, unhandled >>

\* the event loop resumes call() once the promise it awaits has settled
CallResumes ==
  /\ \/ pc = "fetching" /\ fetchState = "settled"
     \/ pc = "backoff" /\ sleepPromise = "resolved"
  /\ IF pc = "fetching" THEN AfterFetch ELSE AfterBackoff
  /\ fetchState' = "none"
  /\ UNCHANGED << maxRetries, timeoutMs, validatesDelay, aborted, response,
                  fetchCount, outcomes, overdue, cancelled >>
  /\ UNCHANGED sent
  /\ UNCHANGED outside

\* time passes up to the next expiry; a due timer expires before time moves on
Tick ==
  /\ Pending # {}
  /\ Due = {}
  /\ timers' = [i \in DOMAIN timers |->
                  IF i \in Pending
                    THEN [timers[i] EXCEPT !.remaining = @ - MinRemaining]
                    ELSE timers[i]]
  /\ UNCHANGED << maxRetries, timeoutMs, validatesDelay, pc, attempt, lastError,
                  aborted, fetchState, response, sleepPromise, fetchCount, log,
                  result, failure, outcomes, overdue, cancelled, unhandled >>
  /\ UNCHANGED sent
  /\ UNCHANGED outside

\* a timer expires: its promise is fulfilled with its value
TimerFire(i) ==
  /\ i \in Due
  /\ timers' = [timers EXCEPT ![i].state = "fired"]
  /\ aborted' = IF timers[i].kind = "timeout" /\ timers[i].attempt = attempt
                   /\ pc = "fetching" /\ TimeoutFiresAbort
                  THEN TRUE ELSE aborted
  /\ sleepPromise' = IF timers[i].kind = "sleep" /\ sleepPromise = "pending"
                        /\ SleepFiresResolve
                       THEN "resolved" ELSE sleepPromise
  /\ overdue' = IF timers[i].kind = "timeout" /\ timers[i].attempt = attempt
                   /\ pc = "fetching" /\ fetchState = "pending"
                  THEN overdue \cup {attempt} ELSE overdue
  /\ UNCHANGED << maxRetries, timeoutMs, validatesDelay, pc, attempt, lastError,
                  fetchState, response, fetchCount, log, result, failure, outcomes,
                  cancelled, unhandled >>
  /\ UNCHANGED sent
  /\ UNCHANGED outside

\* the caller fires its own cancellation signal; call(config) takes no signal
\* (line 33) and registers no listener, so nothing of the call changes
Cancel ==
  /\ pc \notin {"returned", "raised"}
  /\ ~cancelled
  /\ cancelled' = TRUE
  /\ UNCHANGED << maxRetries, timeoutMs, validatesDelay, pc, attempt, lastError,
                  aborted, fetchState, response, sleepPromise, timers, fetchCount,
                  log, result, failure, outcomes, overdue, unhandled >>
  /\ UNCHANGED sent
  /\ UNCHANGED outside

Next ==
  \/ StartAttempt
  \/ FinalThrow
  \/ TransportSettle
  \/ CallResumes
  \/ Tick
  \/ \E i \in DOMAIN timers : TimerFire(i)
  \/ Cancel

Spec == Init /\ [][Next]_vars

\* The event loop runs every ready continuation and every due timer, time passes,
\* and every transport call eventually settles.  The caller need not cancel.
FairSpec ==
  /\ Spec
  /\ WF_vars(StartAttempt)
  /\ WF_vars(FinalThrow)
  /\ WF_vars(TransportSettle)
  /\ WF_vars(CallResumes)
  /\ WF_vars(Tick)
  /\ WF_vars(\E i \in DOMAIN timers : TimerFire(i))

----------------------------------------------------------------------------
(* The factory and its callers: createSolaraProvider() is synchronous, so calls  *)
(* of it by concurrent callers run one after another, in any order.              *)

callState == << validatesDelay, attempt, lastError, aborted, fetchState, response,
                sleepPromise, timers, fetchCount, log, result, failure, outcomes,
                overdue, cancelled, unhandled, sent >>

\* no provider exists yet; a request is ready to be made
FactoryInit ==
  /\ env \in [retries : EnvRetries, timeout : EnvTimeouts]
  /\ config \in Configs
  /\ validatesDelay \in BOOLEAN
  /\ maxRetries = NaN
  /\ timeoutMs = NaN
  /\ pc = "idle"
  /\ attempt = 0
  /\ lastError = NullError
  /\ aborted = FALSE
  /\ fetchState = "none"
  /\ response = NoResponse
  /\ sleepPromise = "none"
  /\ timers = << >>
  /\ fetchCount = 0
  /\ log = << >>
  /\ result = Undefined
  /\ failure = NoFailure
  /\ outcomes = << >>
  /\ overdue = {}
  /\ cancelled = FALSE
  /\ unhandled = 0
  /\ instances = << >>
  /\ held = [c \in Callers |-> 0]
  /\ envReads = 0
  /\ sent = << >>

\* lines 110-117: caller c calls createSolaraProvider()
CreateProvider(c) ==
  /\ held[c] = 0
  /\ instances' = Append(instances, NewProvider(env))
  /\ held' = [held EXCEPT ![c] = Len(instances) + 1]
  /\ envReads' = envReads + 1
  /\ UNCHANGED << maxRetries, timeoutMs, pc, config, env >>
  /\ UNCHANGED callState

\* caller c invokes call(config) on the provider it was given (lines 26-36)
InvokeCall(c) ==
  /\ pc = "idle"
  /\ held[c] # 0
  /\ maxRetries' = instances[held[c]].maxRetries
  /\ timeoutMs' = instances[held[c]].timeoutMs
  /\ pc' = "loop"
  /\ UNCHANGED outside
  /\ UNCHANGED callState

FactoryNext ==
  \/ \E c \in Callers : CreateProvider(c)
  \/ \E c \in Callers : InvokeCall(c)
  \/ Next

FactorySpec == FactoryInit /\ [][FactoryNext]_vars

TypeOK ==
  /\ pc \in {"idle", "loop", "fetching", "backoff", "returned", "raised"}
  /\ fetchState \in {"none", "pending", "settled"}
  /\ sleepPromise \in {"none", "pending", "resolved"}
  /\ attempt \in Nat
  /\ fetchCount \in Nat
  /\ aborted \in BOOLEAN
  /\ cancelled \in BOOLEAN

----------------------------------------------------------------------------
(* The failure labels of the specification, read off a settled request *)

IsSuccess(o) == o.kind = "response" /\ o.status \in 200..299 /\ o.content \notin {Undefined, ""}

IsMalformed(o) == o.kind = "response" /\ o.status \in 200..299 /\ o.content \in {Undefined, ""}

IsRateLimited(o) == o.kind = "response" /\ o.status = 429

IsServerError(o) == o.kind = "response" /\ o.status \in 500..599

IsClientError(o) == o.kind = "response" /\ o.status \in 400..499 /\ o.status # 429

IsTimeout(o) == o.kind = "error" /\ o.name = "AbortError"

IsRetryable(o) == IsTimeout(o) \/ IsRateLimited(o) \/ IsServerError(o)

Terminated == pc \in {"returned", "raised"}

SleepStarted == sleepPromise # "none" \/ \E i \in DOMAIN timers : timers[i].kind = "sleep"

\* call() takes the step that handles the settled request of the current attempt
HandlesSettled == pc = "fetching" /\ fetchState = "settled" /\ pc' # "fetching"

----------------------------------------------------------------------------
(* C1: with maxRetries = 3 and a transport that answers every attempt with a   *)
(* 5xx, call() issues exactly 3 attempts and then raises the retries-exhausted *)
(* failure.  Stated for every fair run: either the transport at some point     *)
(* answers something else, or the call ends raised, exhausted, after 3 calls.  *)
C1_ThreeAttemptsThenExhausted ==
  (maxRetries = 3) =>
    <>( \/ \E i \in DOMAIN outcomes : ~IsServerError(outcomes[i])
        \/ pc = "raised" /\ failure.kind = "exhausted" /\ fetchCount = 3 )

C3_SucceedsOnThirdAttempt ==
  (maxRetries >= 3) =>
    <>( \/ \E i \in DOMAIN outcomes :
             \/ i <= 2 /\ ~IsRetryable(outcomes[i])
             \/ i = 3 /\ ~IsSuccess(outcomes[i])
        \/ pc = "returned" /\ fetchCount = 3 /\ Len(outcomes) = 3
             /\ result = outcomes[3].content )

(* C4: an attempt that exceeds its own deadline counts as a retryable Timeout: *)
(* with attempts remaining (index < maxRetries - 1) its outcome is an abort    *)
(* and the call does not end at that attempt.                                  *)
C4_OverdueAttemptIsRetried ==
  \A i \in overdue :
    (i < maxRetries - 1) =>
      /\ (i + 1 <= Len(outcomes)) => IsTimeout(outcomes[i + 1])
      /\ ~(Terminated /\ attempt = i)

(* C5: every attempt gets its own deadline of timeoutMs: once the timer of the *)
(* attempt in flight has expired, the signal handed to the transport is        *)
(* aborted.                                                                    *)
C5_DeadlineAbortsAttempt ==
  \A i \in DOMAIN timers :
    ( /\ timers[i].kind = "timeout" /\ timers[i].attempt = attempt
      /\ timers[i].duration = timeoutMs /\ timers[i].state = "fired"
      /\ pc = "fetching" /\ fetchState = "pending" ) => aborted

(* C6: provided every transport call settles, call() eventually terminates,    *)
(* returned or raised.                                                         *)
C6_Terminates == <>(pc \in {"returned", "raised"})

(* C7: call() returns a value only from an attempt that answered 2xx with a    *)
(* present, non-empty content, and that value is the content; a call that has  *)
(* ended without such an attempt has raised and returned nothing.              *)
C7_ReturnsOnlyNonEmptyContent ==
  /\ (pc = "returned") =>
       /\ result \notin {Undefined, ""}
       /\ fetchCount >= 1 /\ Len(outcomes) = fetchCount
       /\ IsSuccess(outcomes[fetchCount])
       /\ result = outcomes[fetchCount].content
       /\ failure = NoFailure
  /\ (Terminated /\ \A i \in DOMAIN outcomes : ~IsSuccess(outcomes[i])) =>
       (pc = "raised" /\ result = Undefined /\ failure # NoFailure)

C7_Witness ==
  pc = "returned" /\ result = "answer" /\ IsSuccess(outcomes[Len(outcomes)])

C9_BackoffDuration ==
  (pc = "backoff") =>
    \E i \in DOMAIN timers :
      /\ timers[i].kind = "sleep" /\ timers[i].attempt = attempt
      /\ timers[i].duration = 1000 * Pow2(attempt)

(* C10: when the caller's cancellation signal fires during a backoff sleep,    *)
(* the call ends with a Cancelled failure without another attempt.             *)
C10_CancelDuringBackoff ==
  (cancelled /\ pc = "backoff") ~> (pc = "raised" /\ failure.kind = "cancelled")

(* C11: under any interleaving of first accesses by concurrent callers exactly *)
(* one adapter instance is constructed, the credential is read once, and every *)
(* caller holds that same instance.                                            *)
C11_SingleInstance ==
  /\ Len(instances) <= 1
  /\ envReads <= 1
  /\ \A a, b \in Callers : (held[a] # 0 /\ held[b] # 0) => held[a] = held[b]

(* C12: no record logged during call(), on any path, contains the API          *)
(* credential or the prompt text.                                              *)
C12_LogsCarryNoSecret ==
  \A i \in DOMAIN log :
    /\ log[i].detail \notin {EchoOfPrompt, EchoOfCredential}
    /\ log[i].text \notin {Prompt, ApiKey, EchoOfPrompt, EchoOfCredential}

\* the request bounds of the specification, on the values the request carries
ValidRequest(c) ==
  /\ RequestBody(c).content # ""
  /\ RequestBody(c).temperature \in 0 .. 20
  /\ RequestBody(c).max_tokens > 0

(* C13: a request with an empty prompt, a temperature outside 0.0-2.0 or a     *)
(* non-positive maxTokens fails at once with InvalidRequest and attempt count  *)
(* 0: no transport call is issued for it.                                      *)
C13_InvalidRequestRejected ==
  (~ValidRequest(config)) =>
    /\ fetchCount = 0 /\ sent = << >>
    /\ pc \notin {"fetching", "backoff", "returned"}

\* the failed attempt at the last index, maxRetries - 1, is being handled
HandlesLastFailure ==
  /\ HandlesSettled
  /\ ~IsSuccess(response)
  /\ attempt = maxRetries - 1

(* C14: no backoff sleep follows the failure of the final attempt (index       *)
(* maxRetries - 1): the call goes straight to its failure; a backoff sleep is  *)
(* started only after a failed attempt with index < maxRetries - 1.            *)
C14_NoSleepAfterFinalAttempt ==
  /\ [][ HandlesLastFailure =>
           /\ sleepPromise' = "none" /\ timers' = timers
           /\ pc' \in {"loop", "raised"} /\ fetchCount' = fetchCount ]_vars
  /\ [][ (pc = "loop" /\ maxRetries >= 1 /\ attempt >= maxRetries) =>
           (pc' \in {"loop", "raised"} /\ SleepStarted' = SleepStarted) ]_vars
  /\ [][ (sleepPromise # "pending" /\ sleepPromise' = "pending") =>
           (HandlesSettled /\ ~IsSuccess(response) /\ attempt < maxRetries - 1) ]_vars
  /\ [](pc = "backoff" => attempt < maxRetries - 1)

C14_Witness ==
  /\ pc = "raised" /\ failure.kind = "exhausted"
  /\ maxRetries >= 1
  /\ fetchCount = maxRetries /\ Len(outcomes) = maxRetries
  /\ ~IsSuccess(outcomes[maxRetries])
  /\ ~SleepStarted

(* C15: after a RateLimited or ServerError failure of attempt i < maxRetries-1 *)
(* the backoff wait eventually completes and attempt i+1 is issued.            *)
C15_BackoffThenNextAttempt ==
  \A i \in 0 .. MaxRetriesCfg :
    ( /\ pc = "backoff" /\ attempt = i /\ i < maxRetries - 1
      /\ \/ IsRateLimited(outcomes[Len(outcomes)])
         \/ IsServerError(outcomes[Len(outcomes)]) )
      ~> (fetchCount >= i + 2 /\ attempt = i + 1)

\* the attempts this invocation may make at most
AttemptBudget == IF maxRetries = NaN \/ maxRetries < 0 THEN 0 ELSE maxRetries

IsStartRecord(r) == r.kind = "start"

IsTimeoutTimer(t) == t.kind = "timeout"

(* C16: in every reachable state the number of transport calls issued is at    *)
(* most maxRetries, the attempts were issued with the indices 0, 1, 2, ... in  *)
(* order without gap or repeat, and at most one attempt is in flight.          *)
C16_AttemptsBoundedOrderedSerial ==
  /\ fetchCount <= AttemptBudget
  /\ Len(sent) = fetchCount
  /\ Len(SelectSeq(log, IsStartRecord)) = fetchCount
  /\ \A j \in 1 .. fetchCount :
       /\ SelectSeq(log, IsStartRecord)[j].attempt = j
       /\ SelectSeq(timers, IsTimeoutTimer)[j].attempt = j - 1
  /\ fetchCount - Len(outcomes) \in {0, 1}
  /\ (fetchCount - Len(outcomes) = 1) => (pc = "fetching" /\ attempt = fetchCount - 1)

C16_Witness ==
  /\ maxRetries >= 1 /\ fetchCount = maxRetries
  /\ pc = "fetching" /\ fetchState = "pending"
  /\ fetchCount - Len(outcomes) = 1

\* the attempts whose settled request call() has handled
Handled ==
  Len(outcomes) - (IF pc = "fetching" /\ fetchState = "settled" THEN 1 ELSE 0)

IsOutcomeRecord(r) == r.kind \in {"success", "failed"}

C18_NoAttemptsWithoutBudget ==
  (pc # "idle" /\ (maxRetries = NaN \/ maxRetries <= 0)) =>
    /\ fetchCount = 0 /\ sent = << >> /\ outcomes = << >>
    /\ pc \in {"loop", "raised"}
    /\ result = Undefined
    /\ lastError = NullError
    /\ (pc = "raised" =>
          failure = [kind |-> "exhausted", n |-> maxRetries, cause |-> "null"])

C18_Witness ==
  /\ env.retries = << "a", "b", "c" >>
  /\ maxRetries = NaN
  /\ pc = "raised" /\ failure.kind = "exhausted" /\ failure.cause = "null"
  /\ fetchCount = 0

====
